---- MODULE Spec2Model ----
(***************************************************************************)
(* The OneDrive storage addon of osf.io: the node-settings record of one   *)
(* project (website/addons/onedrive/model.py) and the folder-listing view  *)
(* (website/addons/onedrive/views.py), as a state machine.                 *)
(*                                                                         *)
(* One project (node), one user, one external account.  Every action is    *)
(* one call of a method or view on the node-settings instance; the remote  *)
(* service and the OAuth provider are the environment: the outcome of      *)
(* every remote call is chosen nondeterministically.                       *)
(*                                                                         *)
(* Strings whose characters matter (folder names and paths) are sequences  *)
(* of one-character strings, so that joins are computed, never assumed.    *)
(***************************************************************************)
EXTENDS Integers, Sequences, FiniteSets, TLC

(***************************************************************************)
(* Bounds of the model.                                                    *)
(***************************************************************************)
\* the audit log of the project holds at most MaxLog entries
MaxLog == 3
\* the access token is refreshed at most MaxToken times
MaxToken == 1
\* a project has at most MaxUsers contributors
MaxUsers == 5
\* max_count, when the caller gives it, is at most MaxCount
MaxCount == 4

(***************************************************************************)
(* Python values.                                                          *)
(***************************************************************************)
\* None, where the other values of the field are strings (ids, references)
None == "None"
\* None in a string field whose other values are character sequences; no
\* character sequence equals it, its one element is not a character
NoneStr == <<"None">>
\* `not self._folder_data`: the class attribute `_folder_data = None`
NoData == [id |-> None]

Slash == "/"
Backslash == "\\"

(***************************************************************************)
(* The remote service: the folders get_folder can return.  "1" is          *)
(* Documents/Reports of the specification's scenario, "2" a child of the   *)
(* root (empty path_collection), "9" a folder whose record is marked       *)
(* deleted.                                                                *)
(***************************************************************************)
Documents == <<"D", "o", "c", "s">>
Reports == <<"R", "e", "p">>
Music == <<"M", "u">>
Old == <<"O", "l", "d">>

FolderIds == {"1", "2", "9"}
\* the folders the user selects: the ones a listing offers, which are not deleted
Selectable == {"1", "2"}

Remote ==
    [fid \in FolderIds |->
        CASE fid = "1" ->
               [id |-> "1", name |-> Reports,
                path_collection |-> <<[name |-> Documents]>>,
                item_collection |->
                    <<[id |-> "11", name |-> <<"Q", "1">>, type |-> "folder"],
                      [id |-> "12", name |-> <<"n", ".", "t">>, type |-> "file"],
                      [id |-> "13", name |-> <<"Q", "2">>, type |-> "folder"]>>,
                is_deleted |-> FALSE]
          [] fid = "2" ->
               [id |-> "2", name |-> Music,
                path_collection |-> <<>>,
                item_collection |->
                    <<[id |-> "21", name |-> <<"f">>, type |-> "file"],
                      [id |-> "22", name |-> <<"J">>, type |-> "folder"]>>,
                is_deleted |-> FALSE]
          [] OTHER ->
               [id |-> "9", name |-> Old,
                path_collection |-> <<[name |-> Documents]>>,
                item_collection |->
                    <<[id |-> "91", name |-> <<"Z">>, type |-> "folder"]>>,
                is_deleted |-> TRUE]]

\* what the environment does to the remote calls of one operation: nothing,
\* or the provider refuses to exchange an expired token, or the fetch fails
\* with a client exception, or the fetch runs out of retries
Env == {"ok", "refresh_fails", "client_error", "max_retry"}
\* the same, for an operation that fetches nothing
RefreshEnv == {"ok", "refresh_fails"}

\* the host's os.path module: posixpath or ntpath
Hosts == {"posix", "nt"}

(***************************************************************************)
(* String helpers.                                                         *)
(***************************************************************************)
RECURSIVE str_join(_, _)
\* sep.join(parts)
str_join(sep, parts) ==
    IF parts = <<>> THEN <<>>
    ELSE IF Len(parts) = 1 THEN parts[1]
    ELSE parts[1] \o <<sep>> \o str_join(sep, Tail(parts))

\* [x['name'] for x in entries]
names_of(entries) == [i \in 1..Len(entries) |-> entries[i].name]

\* '/'.join([x['name'] for x in data['path_collection']['entries']] + [data['name']])
full_path(data) ==
    str_join(Slash, names_of(data.path_collection) \o <<data.name>>)

\* b.startswith(c) for a one-character c
starts_with(b, c) == b # <<>> /\ b[1] = c

\* a.endswith(c) for a one-character c
ends_with(a, c) == a # <<>> /\ a[Len(a)] = c

\* posixpath.join(a, b)
posix_join(a, b) ==
    IF starts_with(b, Slash) THEN b
    ELSE IF a = <<>> \/ ends_with(a, Slash) THEN a \o b
    ELSE a \o <<Slash>> \o b

\* ntpath.join(a, b), for paths without a drive letter
nt_join(a, b) ==
    IF starts_with(b, Slash) \/ starts_with(b, Backslash) THEN b
    ELSE IF a # <<>> /\ ~ends_with(a, Slash) /\ ~ends_with(a, Backslash)
         THEN a \o <<Backslash>> \o b
    ELSE a \o b

\* os.path.join(a, b) on host h
os_path_join(h, a, b) == IF h = "posix" THEN posix_join(a, b) ELSE nt_join(a, b)

\* str(folder_id): the ids the views pass are ASCII strings already
py_str(x) == x

(***************************************************************************)
(* State.                                                                  *)
(***************************************************************************)
VARIABLES
    host,    \* the os.path flavour of the process
    ns,      \* the OnedriveNodeSettings instance in memory
    db,      \* the fields of the node settings as last saved
    grants,  \* the user settings' oauth grant for this node and account
    acct,    \* the external account: its oauth_key and whether it is expired
    log,     \* the audit log of the owning project
    last,    \* the last operation: name, caller, outcome, result, remote calls
    failed,  \* history: a remote call made for the instance in memory has failed
    abbrev   \* a call of get_node_contributors_abbrev: its arguments, its result

vars == <<host, ns, db, grants, acct, log, last, failed, abbrev>>

\* the user settings of the one user, and the user's one external account
UserSettings == "user_settings_1"
ExternalAccount == "external_account_1"

\* a new record: folder_id = StringField(default=None), the other fields unset
NewSettings ==
    [folder_id |-> None, folder_name |-> NoneStr, folder_path |-> NoneStr,
     folder_data |-> NoData, user_settings |-> None, external_account |-> None]

\* the fields the ORM stores: every field but the class attribute _folder_data
persisted(s) ==
    [folder_id |-> s.folder_id, folder_name |-> s.folder_name,
     folder_path |-> s.folder_path, user_settings |-> s.user_settings,
     external_account |-> s.external_account]

\* an instance loaded from the stored fields; _folder_data is the class default
loaded(d) ==
    [folder_id |-> d.folder_id, folder_name |-> d.folder_name,
     folder_path |-> d.folder_path, folder_data |-> NoData,
     user_settings |-> d.user_settings, external_account |-> d.external_account]

NoGrant == [granted |-> FALSE, folder |-> None]

(***************************************************************************)
(* A world is the state a method runs in and leaves behind: the variables  *)
(* above, the remote calls made so far in the operation (calls), what the  *)
(* token refresh and the remote fetch did (refresh, fetch), the exception  *)
(* in flight (raised) and the returned value (ret).                        *)
(***************************************************************************)
World ==
    [ns |-> ns, db |-> db, grants |-> grants, acct |-> acct, log |-> log,
     calls |-> <<>>, refresh |-> "none", fetch |-> "none", raised |-> "none",
     ret |-> None]

\* self.save()
save(w) == [w EXCEPT !.db = persisted(w.ns)]

\* utils.refresh_oauth_key(external_account): an unexpired key is left alone,
\* an expired one is exchanged, unless the provider refuses
refresh_oauth_key(w, env) ==
    LET w1 == [w EXCEPT !.calls = Append(@, "refresh_oauth_key")]
    IN  IF w.ns.external_account = None
            THEN [w1 EXCEPT !.raised = "AttributeError"]
        ELSE IF ~w.acct.expired THEN [w1 EXCEPT !.refresh = "fresh"]
        ELSE IF env # "refresh_fails"
            THEN [w1 EXCEPT !.acct = [token |-> w.acct.token + 1, expired |-> FALSE],
                            !.refresh = "refreshed"]
        ELSE [w1 EXCEPT !.refresh = "failed", !.raised = "OnedriveClientException"]

\* client.get_folder(folder_id)
get_folder(w, env) ==
    LET w1 == [w EXCEPT !.calls = Append(@, "get_folder")]
    IN  CASE env = "client_error" ->
               [w1 EXCEPT !.fetch = "client_error", !.raised = "OnedriveClientException"]
          [] env = "max_retry" ->
               [w1 EXCEPT !.fetch = "max_retry", !.raised = "MaxRetryError"]
          [] OTHER -> [w1 EXCEPT !.fetch = "ok"]

\* OnedriveNodeLogger(node, auth).log(action, extra, save=True)
node_log(w, action, extra) ==
    [w EXCEPT !.log = Append(@, [action |-> action, folder_id |-> extra])]

\* user_settings.has_auth: the user holds an external account
user_has_auth == TRUE

\* OnedriveNodeSettings.has_auth
has_auth(s) == s.user_settings # None /\ user_has_auth

\* user_settings.verify_oauth_access(node, external_account)
verify_oauth_access(w) == w.grants.granted

\* user_settings.grant_oauth_access(node, external_account, metadata)
grant_oauth_access(w, metadata) ==
    [w EXCEPT !.grants = [granted |-> TRUE,
                          folder |-> IF metadata = None THEN @.folder ELSE metadata]]

\* OnedriveNodeSettings.complete
complete(w) == has_auth(w.ns) /\ verify_oauth_access(w)

\* AddonOAuthNodeSettingsBase.clear_auth
clear_auth(w) ==
    save([w EXCEPT !.ns.external_account = None, !.ns.user_settings = None])

\* AddonOAuthNodeSettingsBase.set_auth(external_account, user)
set_auth(w) ==
    LET w1 == grant_oauth_access(w, None)
    IN  save([w1 EXCEPT !.ns.user_settings = UserSettings,
                        !.ns.external_account = ExternalAccount])

(***************************************************************************)
(* OnedriveNodeSettings (model.py).  env is what the environment does to   *)
(* the token refresh and the remote fetch the method may make.             *)
(***************************************************************************)
\* _update_folder_data with a bug: the folder is fetched whatever the token
\* refresh did
update_folder_data_fetches_anyway(w, env) ==
    IF w.ns.folder_id = None THEN w
    ELSE IF w.ns.folder_data # NoData THEN w
    ELSE LET w1 == refresh_oauth_key(w, env)
             w2 == get_folder([w1 EXCEPT !.raised = "none"], env)
             data == Remote[w.ns.folder_id]
         IN  IF w2.raised = "OnedriveClientException"
                 THEN [w2 EXCEPT !.raised = "none"]
             ELSE IF w2.raised # "none" THEN w2
             ELSE save([w2 EXCEPT !.ns.folder_data = data,
                                  !.ns.folder_name = data.name,
                                  !.ns.folder_path = full_path(data)])

\* OnedriveNodeSettings._update_folder_data
update_folder_data(w, env) ==
    IF w.ns.folder_id = None THEN w
    ELSE IF w.ns.folder_data # NoData THEN w
    ELSE LET w1 == refresh_oauth_key(w, env)
             w2 == IF w1.raised = "none" THEN get_folder(w1, env) ELSE w1
             data == Remote[w.ns.folder_id]
         IN  IF w2.raised = "OnedriveClientException"
                 THEN [w2 EXCEPT !.raised = "none"]
             ELSE IF w2.raised # "none" THEN w2
             ELSE save([w2 EXCEPT !.ns.folder_data = data,
                                  !.ns.folder_name = data.name,
                                  !.ns.folder_path = full_path(data)])

\* OnedriveNodeSettings.set_folder
set_folder(w, folder_id, env) ==
    LET w1 == [w EXCEPT !.ns.folder_id = py_str(folder_id)]
        w2 == update_folder_data(w1, env)
        w3 == save(w2)
        w4 == IF ~complete(w3) THEN grant_oauth_access(w3, w3.ns.folder_id) ELSE w3
    IN  IF w2.raised # "none" THEN w2
        ELSE node_log(w4, "folder_selected", None)

\* OnedriveNodeSettings.set_user_auth
set_user_auth(w) ==
    node_log([w EXCEPT !.ns.user_settings = UserSettings], "node_authorized", None)

\* deauthorize with a bug: the cached metadata is dropped, but by a check of
\* folder_id made before folder_id is reset, so only a later call drops it
deauthorize_clears_late(w, add_log, env) ==
    LET w0 == IF w.ns.folder_id = None
                  THEN [w EXCEPT !.ns.folder_name = NoneStr, !.ns.folder_path = NoneStr,
                                 !.ns.folder_data = NoData]
              ELSE w
        w1 == IF add_log THEN node_log(w0, "node_deauthorized", w0.ns.folder_id) ELSE w0
        w2 == [w1 EXCEPT !.ns.folder_id = None, !.ns.user_settings = None]
    IN  save(clear_auth(w2))

\* deauthorize with a bug: the entry is logged after folder_id is reset
deauthorize_logs_late(w, add_log, env) ==
    LET w1 == [w EXCEPT !.ns.folder_id = None]
        w2 == update_folder_data(w1, env)
        w3 == IF add_log THEN node_log(w2, "node_deauthorized", w2.ns.folder_id) ELSE w2
        w4 == [w3 EXCEPT !.ns.user_settings = None]
    IN  IF w2.raised # "none" THEN w2 ELSE save(clear_auth(w4))

\* OnedriveNodeSettings.deauthorize
deauthorize(w, add_log, env) ==
    LET w1 == IF add_log THEN node_log(w, "node_deauthorized", w.ns.folder_id) ELSE w
        w2 == [w1 EXCEPT !.ns.folder_id = None]
        w3 == update_folder_data(w2, env)
        w4 == [w3 EXCEPT !.ns.user_settings = None]
    IN  IF w3.raised # "none" THEN w3 ELSE save(clear_auth(w4))

\* OnedriveNodeSettings.after_delete
after_delete(w, env) ==
    LET w1 == deauthorize(w, TRUE, env)
    IN  IF w1.raised # "none" THEN w1 ELSE save(w1)

\* OnedriveNodeSettings.on_delete
on_delete(w, env) ==
    LET w1 == deauthorize(w, FALSE, env)
    IN  IF w1.raised # "none" THEN w1 ELSE save(clear_auth(w1))

AllFiles == <<"A", "l", "l", " ", "F", "i", "l", "e", "s">>
FullOnedrive ==
    <<"/", " ", "(", "F", "u", "l", "l", " ", "O", "n", "e", "d", "r", "i", "v", "e", ")">>

RECURSIVE str_replace(_, _, _)
\* s.replace(old, new), old not empty
str_replace(s, old, new) ==
    IF Len(s) < Len(old) THEN s
    ELSE IF SubSeq(s, 1, Len(old)) = old
        THEN new \o str_replace(SubSeq(s, Len(old) + 1, Len(s)), old, new)
    ELSE <<s[1]>> \o str_replace(Tail(s), old, new)

\* OnedriveNodeSettings.fetch_folder_name
fetch_folder_name(w, env) ==
    LET w1 == update_folder_data(w, env)
    IN  IF w1.raised # "none" THEN w1
        ELSE IF w1.ns.folder_name = NoneStr THEN [w1 EXCEPT !.raised = "AttributeError"]
        ELSE [w1 EXCEPT !.ret = str_replace(w1.ns.folder_name, AllFiles, FullOnedrive)]

\* OnedriveNodeSettings.fetch_full_folder_path
fetch_full_folder_path(w, env) ==
    LET w1 == update_folder_data(w, env)
    IN  IF w1.raised # "none" THEN w1
        ELSE [w1 EXCEPT !.ret = w1.ns.folder_path]

\* serialize_waterbutler_credentials with a bug: the key is read before the
\* refresh and returned after it
serialize_stale_key(w, env) ==
    IF ~has_auth(w.ns) THEN [w EXCEPT !.raised = "AddonError"]
    ELSE LET w1 == refresh_oauth_key(w, env)
         IN  IF w1.raised = "OnedriveClientException"
                 THEN [w1 EXCEPT !.raised = "HTTPError(status_code)"]
             ELSE IF w1.raised # "none" THEN w1
             ELSE [w1 EXCEPT !.ret = [token |-> w.acct.token]]

\* OnedriveNodeSettings.serialize_waterbutler_credentials
serialize_waterbutler_credentials(w, env) ==
    IF ~has_auth(w.ns) THEN [w EXCEPT !.raised = "AddonError"]
    ELSE LET w1 == refresh_oauth_key(w, env)
         IN  IF w1.raised = "OnedriveClientException"
                 THEN [w1 EXCEPT !.raised = "HTTPError(status_code)"]
             ELSE IF w1.raised # "none" THEN w1
             ELSE [w1 EXCEPT !.ret = [token |-> w1.acct.token]]

(***************************************************************************)
(* The views (views.py).                                                   *)
(***************************************************************************)
\* the synthetic entry of the root
RootEntry == [id |-> "0", name |-> FullOnedrive, path |-> AllFiles]

\* one entry of the listing, for a child item of the folder at folder_path
folder_entry(h, folder_path, item) ==
    [id |-> item.id, name |-> item.name,
     path |-> os_path_join(h, folder_path, item.name)]

\* the list comprehension that ends onedrive_folder_list
folder_entries(h, metadata) ==
    LET folders == SelectSeq(metadata.item_collection, LAMBDA item : item.type = "folder")
    IN  [i \in 1..Len(folders) |-> folder_entry(h, full_path(metadata), folders[i])]

\* onedrive_folder_list with a bug: the token is refreshed before the root
\* sentinel is looked at
folder_list_refreshes_first(w, h, folder_id, env) ==
    IF ~has_auth(w.ns) THEN [w EXCEPT !.raised = "HTTPError(FORBIDDEN)"]
    ELSE LET w1 == refresh_oauth_key(w, env)
             w2 == get_folder(w1, env)
             metadata == Remote[folder_id]
         IN  IF w1.raised = "OnedriveClientException"
                 THEN [w1 EXCEPT !.raised = "HTTPError(FORBIDDEN)"]
             ELSE IF w1.raised # "none" THEN w1
             ELSE IF folder_id = None THEN [w1 EXCEPT !.ret = <<RootEntry>>]
             ELSE IF w2.raised = "OnedriveClientException"
                 THEN [w2 EXCEPT !.raised = "HTTPError(NOT_FOUND)"]
             ELSE IF w2.raised = "MaxRetryError"
                 THEN [w2 EXCEPT !.raised = "HTTPError(BAD_REQUEST)"]
             ELSE IF metadata.is_deleted
                 THEN [w2 EXCEPT !.raised = "HTTPError(NOT_FOUND)"]
             ELSE [w2 EXCEPT !.ret = folder_entries(h, metadata)]

\* onedrive_folder_list with a bug: is_deleted is not looked at
folder_list_lists_deleted(w, h, folder_id, env) ==
    IF ~has_auth(w.ns) THEN [w EXCEPT !.raised = "HTTPError(FORBIDDEN)"]
    ELSE IF folder_id = None THEN [w EXCEPT !.ret = <<RootEntry>>]
    ELSE LET w1 == refresh_oauth_key(w, env)
             w2 == get_folder(w1, env)
             metadata == Remote[folder_id]
         IN  IF w1.raised = "OnedriveClientException"
                 THEN [w1 EXCEPT !.raised = "HTTPError(FORBIDDEN)"]
             ELSE IF w1.raised # "none" THEN w1
             ELSE IF w2.raised = "OnedriveClientException"
                 THEN [w2 EXCEPT !.raised = "HTTPError(NOT_FOUND)"]
             ELSE IF w2.raised = "MaxRetryError"
                 THEN [w2 EXCEPT !.raised = "HTTPError(BAD_REQUEST)"]
             ELSE [w2 EXCEPT !.ret = folder_entries(h, metadata)]

\* onedrive_folder_list with a bug: the two except clauses of the fetch raise
\* each other's error
folder_list_swaps_errors(w, h, folder_id, env) ==
    IF ~has_auth(w.ns) THEN [w EXCEPT !.raised = "HTTPError(FORBIDDEN)"]
    ELSE IF folder_id = None THEN [w EXCEPT !.ret = <<RootEntry>>]
    ELSE LET w1 == refresh_oauth_key(w, env)
             w2 == get_folder(w1, env)
             metadata == Remote[folder_id]
         IN  IF w1.raised = "OnedriveClientException"
                 THEN [w1 EXCEPT !.raised = "HTTPError(FORBIDDEN)"]
             ELSE IF w1.raised # "none" THEN w1
             ELSE IF w2.raised = "OnedriveClientException"
                 THEN [w2 EXCEPT !.raised = "HTTPError(BAD_REQUEST)"]
             ELSE IF w2.raised = "MaxRetryError"
                 THEN [w2 EXCEPT !.raised = "HTTPError(NOT_FOUND)"]
             ELSE IF metadata.is_deleted
                 THEN [w2 EXCEPT !.raised = "HTTPError(NOT_FOUND)"]
             ELSE [w2 EXCEPT !.ret = folder_entries(h, metadata)]

\* onedrive_folder_list, folder_id being request.args.get('folderId')
onedrive_folder_list(w, h, folder_id, env) ==
    IF ~has_auth(w.ns) THEN [w EXCEPT !.raised = "HTTPError(FORBIDDEN)"]
    ELSE IF folder_id = None THEN [w EXCEPT !.ret = <<RootEntry>>]
    ELSE LET w1 == refresh_oauth_key(w, env)
             w2 == get_folder(w1, env)
             metadata == Remote[folder_id]
         IN  IF w1.raised = "OnedriveClientException"
                 THEN [w1 EXCEPT !.raised = "HTTPError(FORBIDDEN)"]
             ELSE IF w1.raised # "none" THEN w1
             ELSE IF w2.raised = "OnedriveClientException"
                 THEN [w2 EXCEPT !.raised = "HTTPError(NOT_FOUND)"]
             ELSE IF w2.raised = "MaxRetryError"
                 THEN [w2 EXCEPT !.raised = "HTTPError(BAD_REQUEST)"]
             ELSE IF metadata.is_deleted
                 THEN [w2 EXCEPT !.raised = "HTTPError(NOT_FOUND)"]
             ELSE [w2 EXCEPT !.ret = folder_entries(h, metadata)]

\* onedrive_set_config, uid being request.json['selected']['id']
onedrive_set_config(w, uid, env) == set_folder(w, uid, env)

\* onedrive_add_user_auth, for the user's own external account
onedrive_add_user_auth(w) == save(set_user_auth(set_auth(w)))

\* onedrive_remove_user_auth
onedrive_remove_user_auth(w, env) ==
    LET w1 == deauthorize(w, TRUE, env)
    IN  IF w1.raised # "none" THEN w1 ELSE save(w1)

(***************************************************************************)
(* The contributor abbreviation (project/views/contributor.py).            *)
(***************************************************************************)
\* max_count = kwargs.get('max_count', 3)
DefaultMaxCount == 3

\* the users of the site, in some order; the contributors of a project are
\* the first ones of them, so one user at least is no contributor
Roster == [i \in 1..(MaxUsers + 1) |-> i]

\* User.load(user_id)
User_load(user_id) == [primary_key |-> user_id]

\* user_id in node_to_use.contributors
is_contributor(user_id, contributors) ==
    \E i \in 1..Len(contributors) : contributors[i].primary_key = user_id

\* a Python value that is an int or a str
PyInt(n) == [type |-> "int", val |-> n]
PyStr(c) == [type |-> "str", val |-> c]

Min(a, b) == IF a < b THEN a ELSE b

\* users[:max_count], max_count not negative
slice_to(users, max_count) == SubSeq(users, 1, Min(max_count, Len(users)))

\* the users the abbreviation is made of
users_of(kwargs) ==
    IF kwargs.has_user_ids
        THEN LET kept == SelectSeq(kwargs.user_ids,
                                   LAMBDA user_id : is_contributor(user_id, kwargs.contributors))
             IN  [i \in 1..Len(kept) |-> User_load(kept[i])]
    ELSE kwargs.contributors

RECURSIVE abbrev_loop(_, _, _, _)
\* the for loop of get_node_contributors_abbrev from index on; acc holds
\* contributors, others_count and others_suffix
abbrev_loop(users, max_count, index, acc) ==
    IF index >= Len(slice_to(users, max_count)) THEN acc
    ELSE LET user == users[index + 1]
             overflow == index = max_count - 1 /\ Len(users) > max_count
             separator ==
                 IF overflow THEN " &"
                 ELSE IF index = Len(users) - 1 THEN ""
                 ELSE IF index = Len(users) - 2 THEN " &"
                 ELSE ","
             others_count == IF overflow THEN PyInt(Len(users) - 3) ELSE acc.others_count
             others_suffix ==
                 IF overflow
                     THEN (IF others_count.val > 1 THEN "s" ELSE "")
                 ELSE acc.others_suffix
         IN  abbrev_loop(users, max_count, index + 1,
                 [contributors |->
                      Append(acc.contributors,
                             [user_id |-> user.primary_key, separator |-> separator]),
                  others_count |-> others_count,
                  others_suffix |-> others_suffix])

\* get_node_contributors_abbrev with a bug: max_count of the caller is not
\* read
abbrev_ignores_max_count(kwargs) ==
    IF ~kwargs.can_view
        THEN [raised |-> "HTTPError(FORBIDDEN)", ret |-> None]
    ELSE [raised |-> "none",
          ret |-> abbrev_loop(users_of(kwargs), DefaultMaxCount, 0,
                      [contributors |-> <<>>, others_count |-> PyStr(""),
                       others_suffix |-> ""])]

\* get_node_contributors_abbrev(**kwargs)
get_node_contributors_abbrev(kwargs) ==
    LET max_count == IF kwargs.has_max_count THEN kwargs.max_count ELSE DefaultMaxCount
        users == users_of(kwargs)
    IN  IF ~kwargs.can_view
            THEN [raised |-> "HTTPError(FORBIDDEN)", ret |-> None]
        ELSE [raised |-> "none",
              ret |-> abbrev_loop(users, max_count, 0,
                          [contributors |-> <<>>, others_count |-> PyStr(""),
                           others_suffix |-> ""])]

\* the arguments of a call: the contributors of the project, the user_ids and
\* the max_count when they are given, and whether the caller may view it
Kwargs ==
    {[contributors |-> [i \in 1..n |-> User_load(Roster[i])],
      has_user_ids |-> FALSE, user_ids |-> <<>>,
      has_max_count |-> hm, max_count |-> IF hm THEN mc ELSE 0,
      can_view |-> cv] :
        n \in 0..MaxUsers, hm \in BOOLEAN, mc \in 0..MaxCount, cv \in BOOLEAN}
    \cup
    {[contributors |-> [i \in 1..n |-> User_load(Roster[i])],
      has_user_ids |-> TRUE, user_ids |-> SubSeq(Roster, from, to),
      has_max_count |-> hm, max_count |-> IF hm THEN mc ELSE 0,
      can_view |-> TRUE] :
        n \in 0..MaxUsers, hm \in BOOLEAN, mc \in 0..MaxCount,
        from \in 1..(MaxUsers + 1), to \in 1..(MaxUsers + 1)}

\* no call of the abbreviation
NoCall == [pc |-> "idle"]

(***************************************************************************)
(* The state machine.                                                      *)
(***************************************************************************)
NoOp ==
    [op |-> "none", caller |-> "none", arg |-> None, repeated |-> FALSE,
     raised |-> "none", ret |-> None, calls |-> <<>>, refresh |-> "none",
     fetch |-> "none"]

\* the node settings of a new project
InitNode ==
    /\ host \in Hosts
    /\ ns = NewSettings
    /\ db = persisted(NewSettings)
    /\ grants = NoGrant
    /\ acct = [token |-> 0, expired |-> FALSE]
    /\ log = <<>>
    /\ last = NoOp
    /\ failed = FALSE

Init ==
    /\ InitNode
    /\ abbrev = NoCall

\* the operation op, called by caller with argument arg, ran from World to w;
\* repeated: it follows a completed call of the same operation
Commit(w, op, caller, arg) ==
    /\ ns' = w.ns
    /\ db' = w.db
    /\ grants' = w.grants
    /\ acct' = w.acct
    /\ log' = w.log
    /\ last' = [op |-> op, caller |-> caller, arg |-> arg,
                repeated |-> (last.op = op /\ last.raised = "none"),
                raised |-> w.raised, ret |-> w.ret, calls |-> w.calls,
                refresh |-> w.refresh, fetch |-> w.fetch]
    /\ failed' = (failed \/ w.refresh = "failed" \/ w.fetch \in {"client_error", "max_retry"})
    /\ UNCHANGED <<host, abbrev>>

\* the log has room for the entry the operation appends
LogHasRoom == Len(log) < MaxLog

AddUserAuth ==
    /\ LogHasRoom
    /\ Commit(onedrive_add_user_auth(World), "set_user_auth", "onedrive_add_user_auth", None)

\* @must_be_addon_authorizer: the node is linked to the caller's user settings
SetConfig ==
    /\ LogHasRoom
    /\ has_auth(ns)
    /\ \E uid \in Selectable, env \in Env :
          Commit(onedrive_set_config(World, uid, env), "set_folder",
                 "onedrive_set_config", uid)

RemoveUserAuth ==
    /\ LogHasRoom
    /\ \E env \in Env :
          Commit(onedrive_remove_user_auth(World, env), "deauthorize",
                 "onedrive_remove_user_auth", None)

AfterDelete ==
    /\ LogHasRoom
    /\ \E env \in Env :
          Commit(after_delete(World, env), "deauthorize", "after_delete", None)

OnDelete ==
    \E env \in Env :
        Commit(on_delete(World, env), "deauthorize", "on_delete", None)

FetchFolderName ==
    \E env \in Env :
        Commit(fetch_folder_name(World, env), "fetch_folder_name", "none", None)

FetchFullFolderPath ==
    \E env \in Env :
        Commit(fetch_full_folder_path(World, env), "fetch_full_folder_path",
               "none", None)

SerializeCredentials ==
    \E env \in RefreshEnv :
        Commit(serialize_waterbutler_credentials(World, env),
               "serialize_waterbutler_credentials", "none", None)

FolderList ==
    \E folder_id \in FolderIds \cup {None}, env \in Env :
        Commit(onedrive_folder_list(World, host, folder_id, env),
               "onedrive_folder_list", "none", folder_id)

\* a later request works on a new instance, loaded from the stored fields
Load ==
    /\ ns' = loaded(db)
    /\ last' = NoOp
    /\ failed' = FALSE
    /\ UNCHANGED <<host, db, grants, acct, log, abbrev>>

\* time passes: the access token expires
TokenExpires ==
    /\ ~acct.expired
    /\ acct.token < MaxToken
    /\ acct' = [acct EXCEPT !.expired = TRUE]
    /\ last' = NoOp
    /\ UNCHANGED <<host, ns, db, grants, log, failed, abbrev>>

Next ==
    \/ AddUserAuth
    \/ SetConfig
    \/ RemoveUserAuth
    \/ AfterDelete
    \/ OnDelete
    \/ FetchFolderName
    \/ FetchFullFolderPath
    \/ SerializeCredentials
    \/ FolderList
    \/ Load
    \/ TokenExpires

Spec == Init /\ [][Next]_vars

(***************************************************************************)
(* The abbreviation on its own: a call with any arguments, then its        *)
(* return.  The node settings play no part in it.                          *)
(***************************************************************************)
InitAbbrev ==
    /\ InitNode
    /\ host = "posix"
    /\ \E kwargs \in Kwargs :
          abbrev = [pc |-> "called", kwargs |-> kwargs, raised |-> "none", ret |-> None]

Abbreviate ==
    /\ abbrev.pc = "called"
    /\ LET r == get_node_contributors_abbrev(abbrev.kwargs)
       IN  abbrev' = [abbrev EXCEPT !.pc = "returned", !.raised = r.raised, !.ret = r.ret]
    /\ UNCHANGED <<host, ns, db, grants, acct, log, last, failed>>

NextAbbrev == Abbreviate

SpecAbbrev == InitAbbrev /\ [][NextAbbrev]_vars

(***************************************************************************)
(* Properties of the node settings.                                        *)
(***************************************************************************)
\* the Linked Folder of the instance and its credential reference
Linked ==
    <<ns.folder_id, ns.folder_name, ns.folder_path, ns.user_settings,
      ns.external_account>>

\* the logical path of each remote folder, written out
LogicalPath ==
    [fid \in FolderIds |->
        CASE fid = "1" -> <<"D", "o", "c", "s", "/", "R", "e", "p">>
          [] fid = "2" -> <<"M", "u">>
          [] OTHER -> <<"D", "o", "c", "s", "/", "O", "l", "d">>]

\* a remote call of the last operation failed
RemoteCallFailed(l) ==
    l.refresh = "failed" \/ l.fetch \in {"client_error", "max_retry"}

\* C1: after deauthorize() returns, the record is fully Unconfigured: folder_id
\* is null, the cached metadata (_folder_data, folder_name, folder_path) is
\* cleared, the credential reference is null, and that state is persisted.
C1_DeauthorizeClearsEverything ==
    (last.op = "deauthorize" /\ last.raised = "none") =>
        /\ ns.folder_id = None
        /\ ns.folder_data = NoData
        /\ ns.folder_name \in {NoneStr, <<>>}
        /\ ns.folder_path \in {NoneStr, <<>>}
        /\ ns.user_settings = None
        /\ ns.external_account = None
        /\ db = persisted(ns)

\* C2: deauthorize() is idempotent: a call that follows a call of deauthorize()
\* leaves folder_id, folder_name, folder_path and the credential reference as
\* the first call left them, Unconfigured, and changes neither the credential
\* nor its grants.
C2_DeauthorizeIdempotent ==
    [][(last.op = "deauthorize" /\ last.raised = "none" /\ last'.op = "deauthorize") =>
          /\ last'.raised = "none"
          /\ ns'.folder_id = None
          /\ ns'.user_settings = None
          /\ ns'.external_account = None
          /\ Linked' = Linked
          /\ db' = db
          /\ acct' = acct
          /\ grants' = grants]_vars

\* two calls of deauthorize() in succession, on a record that had a folder
\* and a grant
C2_Witness ==
    /\ last.op = "deauthorize"
    /\ last.repeated
    /\ ns.folder_name = Reports
    /\ grants.granted

\* C3: after set_folder calls on one instance in which every remote fetch
\* succeeds, folder_name and folder_path are the name and the '/'-joined path
\* of the remote folder that folder_id names.
C3_SetFolderRefreshesMetadata ==
    (last.op = "set_folder" /\ last.raised = "none" /\ ~failed) =>
        /\ ns.folder_name = Remote[ns.folder_id].name
        /\ ns.folder_path = LogicalPath[ns.folder_id]

\* C4: whenever the token refresh or the remote fetch made by
\* _update_folder_data fails, whatever the failure, the calling operation
\* (set_folder, fetch_folder_name, fetch_full_folder_path) completes without
\* an error and folder_name and folder_path keep their values.
C4_RefreshSoftFails ==
    [][(/\ last'.op \in {"set_folder", "fetch_folder_name", "fetch_full_folder_path"}
        /\ RemoteCallFailed(last')) =>
          /\ last'.raised = "none"
          /\ ns'.folder_name = ns.folder_name
          /\ ns'.folder_path = ns.folder_path]_vars

\* C5, as claimed: serialize_waterbutler_credentials fails with AddonError
\* exactly when no credential is linked to the node, and whenever one is
\* linked it succeeds and returns a token that is not expired.
C5_SerializeAlwaysSucceeds ==
    last.op = "serialize_waterbutler_credentials" =>
        /\ (last.raised = "AddonError") <=> ~has_auth(ns)
        /\ has_auth(ns) =>
              /\ last.raised = "none"
              /\ last.ret = [token |-> acct.token]
              /\ ~acct.expired

\* C5, amended: serialize_waterbutler_credentials fails with AddonError exactly
\* when no credential is linked to the node; when one is linked it returns the
\* account's key, not expired, also when the stored key was expired at the
\* call, unless the token refresh fails, and then it fails with HTTPError.
C5_SerializeCredentials ==
    last.op = "serialize_waterbutler_credentials" =>
        /\ (last.raised = "AddonError") <=> ~has_auth(ns)
        /\ has_auth(ns) =>
              \/ /\ last.raised = "none"
                 /\ last.refresh \in {"fresh", "refreshed"}
                 /\ last.ret = [token |-> acct.token]
                 /\ ~acct.expired
              \/ /\ last.raised = "HTTPError(status_code)"
                 /\ last.refresh = "failed"

\* the stored key was expired at the call, and a key was returned
C5_Witness ==
    /\ last.op = "serialize_waterbutler_credentials"
    /\ last.refresh = "refreshed"
    /\ last.raised = "none"
    /\ last.ret.token = acct.token

\* the entry an operation appends to the audit log
LogEntry(action, folder_id) == [action |-> action, folder_id |-> folder_id]

\* C6, as claimed: every completed set_folder, set_user_auth and deauthorize
\* appends exactly one entry to the audit log: folder_selected, node_authorized,
\* and, whatever the caller, node_deauthorized with the folder_id held before
\* it was cleared.
C6_EveryOperationLogs ==
    [][(last'.op \in {"set_folder", "set_user_auth", "deauthorize"}
        /\ last'.raised = "none") =>
          log' = Append(log,
                   CASE last'.op = "set_folder" -> LogEntry("folder_selected", None)
                     [] last'.op = "set_user_auth" -> LogEntry("node_authorized", None)
                     [] OTHER -> LogEntry("node_deauthorized", ns.folder_id))]_vars

\* C6, amended: every completed set_folder and set_user_auth appends exactly
\* one entry, folder_selected and node_authorized; a deauthorize called with
\* add_log (by onedrive_remove_user_auth and after_delete) appends exactly one
\* entry, node_deauthorized with the folder_id held before it was cleared; the
\* deauthorize of on_delete (add_log=False) appends nothing.
C6_OperationsLog ==
    [][(last'.op \in {"set_folder", "set_user_auth", "deauthorize"}
        /\ last'.raised = "none") =>
          CASE last'.op = "set_folder" ->
                 log' = Append(log, LogEntry("folder_selected", None))
            [] last'.op = "set_user_auth" ->
                 log' = Append(log, LogEntry("node_authorized", None))
            [] last'.op = "deauthorize" /\ last'.caller # "on_delete" ->
                 log' = Append(log, LogEntry("node_deauthorized", ns.folder_id))
            [] OTHER -> log' = log]_vars

\* a deauthorize has logged the folder it cleared, and the deauthorize of
\* on_delete that followed has logged nothing
C6_Witness ==
    /\ last.op = "deauthorize"
    /\ last.caller = "on_delete"
    /\ Len(log) = 3
    /\ log[3] = LogEntry("node_deauthorized", "1")

(***************************************************************************)
(* Properties of the folder listing.                                       *)
(***************************************************************************)
\* the last operation listed the children of folder_id
Listed(folder_id) == last.op = "onedrive_folder_list" /\ last.arg = folder_id

\* C7, as claimed: a listing with no folder id returns exactly one entry, with
\* id "0", whatever the remote and the credential state, and makes neither a
\* token refresh nor a remote fetch.
C7_RootListingAlways ==
    Listed(None) =>
        /\ last.raised = "none"
        /\ Len(last.ret) = 1
        /\ last.ret[1].id = "0"
        /\ last.calls = <<>>

\* C7, amended: when a credential is linked to the node, a listing with no
\* folder id returns exactly one entry, with id "0", whatever the remote state
\* and the token's expiry, and makes neither a token refresh nor a remote
\* fetch; when none is linked it fails with the forbidden error, and makes no
\* remote call either.
C7_RootListing ==
    Listed(None) =>
        /\ last.calls = <<>>
        /\ IF has_auth(ns)
               THEN /\ last.raised = "none"
                    /\ Len(last.ret) = 1
                    /\ last.ret[1].id = "0"
           ELSE last.raised = "HTTPError(FORBIDDEN)"

\* the root was listed while the stored token was expired
C7_Witness ==
    /\ Listed(None)
    /\ last.raised = "none"
    /\ last.ret = <<RootEntry>>
    /\ acct.expired

\* the last operation listed the children of a folder marked deleted
ListedDeleted ==
    /\ last.op = "onedrive_folder_list"
    /\ last.arg \in FolderIds
    /\ Remote[last.arg].is_deleted

\* C8, as claimed, for a node with a linked credential: listing the children
\* of a folder whose remote record is marked deleted always fails with the
\* not-found error.
C8_DeletedAlwaysNotFound ==
    (ListedDeleted /\ has_auth(ns)) => last.raised = "HTTPError(NOT_FOUND)"

\* C8, amended: listing the children of a folder whose remote record is
\* marked deleted never returns a list of entries; it fails with the not-found
\* error whenever a credential is linked, the token refresh does not fail and
\* the fetch does not run out of retries, with the forbidden error when no
\* credential is linked or the refresh fails, and with the bad-request error
\* when the fetch runs out of retries.
C8_DeletedNeverListed ==
    ListedDeleted =>
        /\ last.raised =
              CASE ~has_auth(ns) -> "HTTPError(FORBIDDEN)"
                [] last.refresh = "failed" -> "HTTPError(FORBIDDEN)"
                [] last.fetch = "max_retry" -> "HTTPError(BAD_REQUEST)"
                [] OTHER -> "HTTPError(NOT_FOUND)"
        /\ last.ret = None

\* the record of a deleted folder was fetched, and the listing failed
C8_Witness ==
    /\ ListedDeleted
    /\ last.fetch = "ok"
    /\ last.raised = "HTTPError(NOT_FOUND)"

\* C9, as claimed: in a listing with a folder id, a fetch that runs out of
\* retries yields the bad-request error and any other failure of the fetch
\* the forbidden error.
C9_FetchFailureForbidden ==
    (last.op = "onedrive_folder_list" /\ last.arg # None) =>
        /\ last.fetch = "max_retry" => last.raised = "HTTPError(BAD_REQUEST)"
        /\ last.fetch = "client_error" => last.raised = "HTTPError(FORBIDDEN)"

\* C9, amended: in a listing with a folder id, a fetch that runs out of
\* retries yields the bad-request error and a client exception of the fetch
\* the not-found error; the forbidden error is raised only before any fetch,
\* for a missing credential or a failed token refresh; no failure of the fetch
\* is reported as any other kind.
C9_FetchFailureClassified ==
    (last.op = "onedrive_folder_list" /\ last.arg # None) =>
        /\ last.fetch = "max_retry" => last.raised = "HTTPError(BAD_REQUEST)"
        /\ last.fetch = "client_error" => last.raised = "HTTPError(NOT_FOUND)"
        /\ last.raised = "HTTPError(FORBIDDEN)" =>
              /\ last.fetch = "none"
              /\ ~has_auth(ns) \/ last.refresh = "failed"

\* the fetch of a listing raised a client exception
C9_Witness ==
    /\ last.op = "onedrive_folder_list"
    /\ last.arg = "1"
    /\ last.fetch = "client_error"
    /\ last.raised = "HTTPError(NOT_FOUND)"

\* the listing of each remote folder that is not deleted, written out: its
\* items of type folder, in order, each at full_path + '/' + name
Listing ==
    [fid \in {"1", "2"} |->
        IF fid = "1"
            THEN <<[id |-> "11", name |-> <<"Q", "1">>,
                    path |-> <<"D", "o", "c", "s", "/", "R", "e", "p", "/", "Q", "1">>],
                   [id |-> "13", name |-> <<"Q", "2">>,
                    path |-> <<"D", "o", "c", "s", "/", "R", "e", "p", "/", "Q", "2">>]>>
        ELSE <<[id |-> "22", name |-> <<"J">>, path |-> <<"M", "u", "/", "J">>]>>]

\* C10: a successful listing of folder_id is the items of the folder whose
\* type is "folder", in their order, each with its id, its name and the path
\* full_path + '/' + name, full_path being the '/'-join of the names of
\* path_collection and the folder's own name.
C10_ListingOfFolders ==
    (last.op = "onedrive_folder_list" /\ last.arg # None /\ last.raised = "none") =>
        last.ret = Listing[last.arg]

(***************************************************************************)
(* The contributor abbreviation.                                           *)
(***************************************************************************)
\* the call of the abbreviation has returned a result
Abbreviated == abbrev.pc = "returned" /\ abbrev.raised = "none"

\* n, the length of the user list of the call
AbbrevN == Len(users_of(abbrev.kwargs))

\* max_count of the call
AbbrevMaxCount ==
    IF abbrev.kwargs.has_max_count THEN abbrev.kwargs.max_count ELSE 3

\* the separators of the entries returned
Separators ==
    [i \in 1..Len(abbrev.ret.contributors) |-> abbrev.ret.contributors[i].separator]

\* the separator at index i (from 0) for n users and max_count mc
SeparatorRule(i, n, mc) ==
    IF i = (IF n < mc THEN n ELSE mc) - 1 /\ n > mc THEN " &"
    ELSE IF i = n - 1 THEN ""
    ELSE IF i = n - 2 THEN " &"
    ELSE ","

\* C11: for a user list of length n and max_count >= 1, min(n, max_count)
\* entries are returned, and the separator at index i is " &" if i is the last
\* considered index and n > max_count, else "" if i = n-1, else " &" if
\* i = n-2, else ","; so [""], [" &", ""], [",", " &", ""] for n = 1, 2, 3
\* with max_count = 3
C11_Separators ==
    (Abbreviated /\ AbbrevMaxCount >= 1) =>
        /\ Len(abbrev.ret.contributors) = (IF AbbrevN < AbbrevMaxCount THEN AbbrevN
                                           ELSE AbbrevMaxCount)
        /\ \A i \in 0..(Len(Separators) - 1) :
              Separators[i + 1] = SeparatorRule(i, AbbrevN, AbbrevMaxCount)
        /\ (AbbrevMaxCount = 3 /\ AbbrevN = 1) => Separators = <<"">>
        /\ (AbbrevMaxCount = 3 /\ AbbrevN = 2) => Separators = <<" &", "">>
        /\ (AbbrevMaxCount = 3 /\ AbbrevN = 3) => Separators = <<",", " &", "">>

\* five contributors abbreviated to two
C11_Witness ==
    /\ Abbreviated
    /\ abbrev.kwargs.has_max_count
    /\ AbbrevMaxCount = 2
    /\ AbbrevN = 5
    /\ Separators = <<",", " &">>

\* C12: for any max_count, when n > max_count the overflow count returned is
\* n - max_count and the suffix is "s" exactly when that count is above 1;
\* when n <= max_count no overflow count and no suffix are returned
C12_OverflowCount ==
    Abbreviated =>
        IF AbbrevN > AbbrevMaxCount
            THEN /\ abbrev.ret.others_count.type = "int"
                 /\ abbrev.ret.others_count.val = AbbrevN - AbbrevMaxCount
                 /\ abbrev.ret.others_suffix =
                        (IF AbbrevN - AbbrevMaxCount > 1 THEN "s" ELSE "")
        ELSE /\ abbrev.ret.others_count.type = "str"
             /\ abbrev.ret.others_count.val = ""
             /\ abbrev.ret.others_suffix = ""

(***************************************************************************)
(* The token refresh before a fetch.                                       *)
(***************************************************************************)
\* C13: every get_folder of an operation, of the folder listing or of the
\* refresh of the folder metadata, comes after a refresh_oauth_key of the same
\* operation on the linked credential, and no get_folder is made when that
\* refresh fails
C13_RefreshBeforeFetch ==
    /\ \A i \in 1..Len(last.calls) :
          last.calls[i] = "get_folder" =>
              /\ \E j \in 1..(i - 1) : last.calls[j] = "refresh_oauth_key"
              /\ last.refresh \in {"fresh", "refreshed"}
              /\ ns.external_account # None
    /\ last.refresh = "failed" =>
          \A i \in 1..Len(last.calls) : last.calls[i] # "get_folder"

\* a folder is selected with an expired token: the token is refreshed, then
\* the folder is fetched
C13_Witness ==
    /\ last.op = "set_folder"
    /\ last.refresh = "refreshed"
    /\ last.calls = <<"refresh_oauth_key", "get_folder">>

====
